---- MODULE Spec2Model ----
(***************************************************************************)
(* Model of the Lightning web component jsonToTable                        *)
(* (force-app/main/default/lwc/jsonToTable/jsonToTable.js).                *)
(*                                                                         *)
(* JavaScript values are tagged records [t |-> tag, v |-> payload].       *)
(* A JavaScript string is a sequence of atoms: an atom is one symbol of    *)
(* the text alphabet, either a JSON punctuation character or a run of      *)
(* other characters taken as a unit.  JSON text is therefore a sequence    *)
(* of atoms, and decoding and encoding work on it symbol by symbol.        *)
(***************************************************************************)
EXTENDS Integers, Sequences, FiniteSets, TLC

\* The one element of a singleton set.  Only({e(x) : x \in {d}}) is e with x
\* standing for the value of d, computed once.
Only(S) == CHOOSE x \in S : TRUE

\* ------------------------------------------------------------------ values
Undefined == [t |-> "undefined", v |-> 0]
Null      == [t |-> "null", v |-> 0]
Bool(b)   == [t |-> "bool", v |-> b]
Num(n)    == [t |-> "num", v |-> n]
Str(s)    == [t |-> "str", v |-> s]
Arr(a)    == [t |-> "arr", v |-> a]
Obj(m)    == [t |-> "obj", v |-> m]

\* ToBoolean: undefined, null, false, 0 and '' are falsy, all else truthy.
Truthy(x) ==
    CASE x.t = "undefined" -> FALSE
      [] x.t = "null"      -> FALSE
      [] x.t = "bool"      -> x.v
      [] x.t = "num"       -> x.v # 0
      [] x.t = "str"       -> x.v # <<>>
      [] OTHER             -> TRUE

\* a || b
OrElse(a, b) == IF Truthy(a) THEN a ELSE b

\* ToString as a template literal applies it to the values that can stand
\* in a decoded JSON document
RECURSIVE JoinElems(_, _)
RECURSIVE ToStr(_)
ToStr(x) ==
    CASE x.t = "undefined" -> <<"undefined">>
      [] x.t = "null"      -> <<"null">>
      [] x.t = "bool"      -> IF x.v THEN <<"true">> ELSE <<"false">>
      [] x.t = "num"       -> <<ToString(x.v)>>
      [] x.t = "str"       -> x.v
      [] x.t = "arr"       -> JoinElems(x.v, 1)
      [] OTHER             -> <<"[object Object]">>

\* Array.prototype.join(','), null and undefined elements giving ''
JoinElems(a, i) ==
    IF i > Len(a) THEN <<>>
    ELSE (IF a[i].t \in {"null", "undefined"} THEN <<>> ELSE ToStr(a[i]))
         \o (IF i < Len(a) THEN <<",">> ELSE <<>>)
         \o JoinElems(a, i + 1)

\* row[key]: property read on a decoded value.  Reading a property of null
\* or undefined throws; callers test CanRead first.  An object is a sequence
\* of <<key, value>> members, the last member of a key being the one kept.
CanRead(row) == row.t \notin {"null", "undefined"}

RECURSIVE Lookup(_, _, _)
Lookup(m, key, i) ==
    IF i = 0 THEN Undefined
    ELSE IF m[i][1] = <<key>> THEN m[i][2]
    ELSE Lookup(m, key, i - 1)

Get(row, key) ==
    IF row.t = "obj" THEN Lookup(row.v, key, Len(row.v)) ELSE Undefined

\* ------------------------------------------------------------- JSON.parse
SyntaxErrorToken == "Unexpected token in JSON"
SyntaxErrorEnd   == "Unexpected end of JSON input"

Ok(val, pos) == [ok |-> TRUE, val |-> val, pos |-> pos, msg |-> ""]
Fail(msg)    == [ok |-> FALSE, val |-> Undefined, pos |-> 0, msg |-> msg]

Digits == {"0", "5", "7"}
NumberOf(a) == CHOOSE n \in {0, 5, 7} : ToString(n) = a

\* the number of backslashes right before position k of s, from position
\* lo on
RECURSIVE BackslashRun(_, _, _)
BackslashRun(s, k, lo) ==
    IF k <= lo \/ s[k - 1] # "\\" THEN 0 ELSE 1 + BackslashRun(s, k - 1, lo)

\* the character at k stands for itself: an even number of backslashes
\* precedes it
Plain(s, k, lo) == BackslashRun(s, k, lo) % 2 = 0

\* the positions lo..hi of a text, in order
Positions(lo, hi) == [n \in 1..(hi - lo + 1) |-> lo + n - 1]

\* the characters of a string literal after its opening quote, which is at
\* position i - 1.  The literal ends at the first quote that stands for
\* itself; a backslash that stands for itself escapes the next character,
\* and only the quote and the backslash are escaped in these texts.
ParseChars(s, i) ==
    Only({
      IF closers = <<>> THEN Fail(SyntaxErrorEnd)
      ELSE IF \E k \in i..(closers[1] - 1) :
                 ~Plain(s, k, i) /\ s[k] \notin {"\"", "\\"}
      THEN Fail(SyntaxErrorToken)
      ELSE Only({ Ok(Str([n \in 1..Len(kept) |-> s[kept[n]]]), closers[1] + 1)
                  : kept \in {SelectSeq(Positions(i, closers[1] - 1),
                                        LAMBDA k : ~(s[k] = "\\" /\ Plain(s, k, i)))} })
      : closers \in {SelectSeq(Positions(i, Len(s)),
                               LAMBDA k : s[k] = "\"" /\ Plain(s, k, i))} })

RECURSIVE ParseValue(_, _)
RECURSIVE ParseElements(_, _, _)
RECURSIVE ParseMembers(_, _, _)

ParseValue(s, i) ==
    IF i > Len(s) THEN Fail(SyntaxErrorEnd)
    ELSE CASE s[i] = "["  ->
                IF i + 1 <= Len(s) /\ s[i + 1] = "]"
                THEN Ok(Arr(<<>>), i + 2)
                ELSE ParseElements(s, i + 1, <<>>)
           [] s[i] = "{"  ->
                IF i + 1 <= Len(s) /\ s[i + 1] = "}"
                THEN Ok(Obj(<<>>), i + 2)
                ELSE ParseMembers(s, i + 1, <<>>)
           [] s[i] = "\"" -> ParseChars(s, i + 1)
           [] s[i] = "null"  -> Ok(Null, i + 1)
           [] s[i] = "true"  -> Ok(Bool(TRUE), i + 1)
           [] s[i] = "false" -> Ok(Bool(FALSE), i + 1)
           [] s[i] \in Digits -> Ok(Num(NumberOf(s[i])), i + 1)
           [] OTHER -> Fail(SyntaxErrorToken)

ParseElements(s, i, acc) ==
    Only({
      IF ~r.ok THEN r
      ELSE IF r.pos > Len(s) THEN Fail(SyntaxErrorEnd)
      ELSE IF s[r.pos] = "," THEN ParseElements(s, r.pos + 1, a)
      ELSE IF s[r.pos] = "]" THEN Ok(Arr(a), r.pos + 1)
      ELSE Fail(SyntaxErrorToken)
      : <<r, a>> \in {Only({<<v, IF v.ok THEN Append(acc, v.val) ELSE acc>>
                            : v \in {ParseValue(s, i)}})} })

ParseMembers(s, i, acc) ==
    IF i > Len(s) THEN Fail(SyntaxErrorEnd)
    ELSE IF s[i] # "\"" THEN Fail(SyntaxErrorToken)
    ELSE Only({
      IF ~k.ok THEN k
      ELSE IF k.pos > Len(s) THEN Fail(SyntaxErrorEnd)
      ELSE IF s[k.pos] # ":" THEN Fail(SyntaxErrorToken)
      ELSE Only({
        IF ~r.ok THEN r
        ELSE IF r.pos > Len(s) THEN Fail(SyntaxErrorEnd)
        ELSE IF s[r.pos] = "," THEN ParseMembers(s, r.pos + 1, a)
        ELSE IF s[r.pos] = "}" THEN Ok(Obj(a), r.pos + 1)
        ELSE Fail(SyntaxErrorToken)
        : <<r, a>> \in {Only({<<v, IF v.ok THEN Append(acc, <<k.val.v, v.val>>)
                                            ELSE acc>>
                              : v \in {ParseValue(s, k.pos + 1)}})} })
      : k \in {ParseChars(s, i + 1)} })

\* JSON.parse(text): one value and nothing after it
JSONparse(text) ==
    Only({ Only({ IF ~r.ok THEN r
                  ELSE IF r.pos <= Len(s) THEN Fail(SyntaxErrorToken)
                  ELSE r
                  : r \in {ParseValue(s, 1)} })
           : s \in {text} })

\* --------------------------------------------------------- JSON.stringify
\* the encoding the stored field value is produced with; the inverse of
\* JSONparse on the documents below
RECURSIVE EscapeRange(_, _, _)
EscapeRange(s, lo, hi) ==
    IF lo > hi THEN <<>>
    ELSE IF lo = hi
         THEN (IF s[lo] \in {"\"", "\\"} THEN <<"\\", s[lo]>> ELSE <<s[lo]>>)
         ELSE Only({ EscapeRange(s, lo, mid) \o EscapeRange(s, mid + 1, hi)
                     : mid \in {(lo + hi) \div 2} })

Quote(chars) ==
    Only({ <<"\"">> \o EscapeRange(s, 1, Len(s)) \o <<"\"">> : s \in {chars} })

RECURSIVE JSONstringify(_)
RECURSIVE StringifyElems(_, _)
RECURSIVE StringifyMembers(_, _)
JSONstringify(value) ==
    Only({ CASE x.t = "null" -> <<"null">>
             [] x.t = "bool" -> IF x.v THEN <<"true">> ELSE <<"false">>
             [] x.t = "num"  -> <<ToString(x.v)>>
             [] x.t = "str"  -> Quote(x.v)
             [] x.t = "arr"  -> <<"[">> \o StringifyElems(x.v, 1) \o <<"]">>
             [] x.t = "obj"  -> <<"{">> \o StringifyMembers(x.v, 1) \o <<"}">>
           : x \in {value} })

StringifyElems(a, i) ==
    IF i > Len(a) THEN <<>>
    ELSE JSONstringify(a[i])
         \o (IF i < Len(a) THEN <<",">> ELSE <<>>)
         \o StringifyElems(a, i + 1)

StringifyMembers(m, i) ==
    IF i > Len(m) THEN <<>>
    ELSE Quote(m[i][1]) \o <<":">> \o JSONstringify(m[i][2])
         \o (IF i < Len(m) THEN <<",">> ELSE <<>>)
         \o StringifyMembers(m, i + 1)

\* ------------------------------------------------------ the component
\* columnMapping, in order.  An entry without typeAttributes carries none;
\* the nested label: { fieldName } of a descriptor is the attribute
\* "label.fieldName".
NoAttrs == [k \in {} |-> ""]

columnMapping ==
    << [jsonKey |-> "caseIssueName", label |-> "Case Issue", type |-> "url",
        urlFieldName |-> "Case_Issue_Link_URL",
        labelFieldName |-> "Case_Issue_Label", typeAttributes |-> NoAttrs],
       [jsonKey |-> "citationForm", label |-> "Citation Form", type |-> "text",
        urlFieldName |-> "", labelFieldName |-> "", typeAttributes |-> NoAttrs],
       [jsonKey |-> "factor", label |-> "Factor", type |-> "number",
        urlFieldName |-> "", labelFieldName |-> "",
        typeAttributes |-> [k \in {"minimumIntegerDigits", "maximumFractionDigits"}
                              |-> IF k = "minimumIntegerDigits" THEN "1" ELSE "5"]],
       [jsonKey |-> "caseIssueId", label |-> "Case Issue Id", type |-> "hidden",
        urlFieldName |-> "", labelFieldName |-> "", typeAttributes |-> NoAttrs] >>

WaitingMessage    == <<"Waiting for record ID...">>
FetchFallback     == <<"An unknown error occurred while fetching record data.">>
NotArrayMessage   == <<"JSON structure is invalid: expected an array of objects.">>
TypeErrorMessage  == <<"Cannot read properties of null (reading 'caseIssueId')">>
InitialTitle      == Str(<<"Payee Association">>)
ZeroTitle         == Str(<<"Payee Association (", "0", ")">>)

\* `Payee Association (${recordCount})`
TitleOf(recordCount) == Str(<<"Payee Association (", ToString(recordCount), ")">>)

\* the getter shouldShowFinalError: a && b yields a when a is falsy
shouldShowFinalError(self) ==
    IF Truthy(self.autoError)
    THEN Bool(self.autoError # Str(WaitingMessage))
    ELSE self.autoError

\* newRow[key] = val
Put(newRow, key, val) ==
    Only({ [k \in DOMAIN r \cup {key} |-> IF k = key THEN v ELSE r[k]]
           : r \in {newRow}, v \in {val} })

\* columnMapping.forEach(colDef => newRow[colDef.jsonKey] = row[colDef.jsonKey])
RECURSIVE CopyMapped(_, _, _)
CopyMapped(newRow, row, i) ==
    IF i > Len(columnMapping) THEN newRow
    ELSE CopyMapped(Put(newRow, columnMapping[i].jsonKey,
                        Get(row, columnMapping[i].jsonKey)), row, i + 1)

\* (variant) the target without its leading slash
LinkUrlNoSlash(caseIssueId) ==
    IF Truthy(caseIssueId) THEN Str(ToStr(caseIssueId)) ELSE Null

\* `/${caseIssueId}` or null
LinkUrl(caseIssueId) ==
    IF Truthy(caseIssueId) THEN Str(<<"/">> \o ToStr(caseIssueId)) ELSE Null

\* (variant) the label taken as it stands, without || null
LinkLabelVerbatim(row) == Get(row, "caseIssueName")

\* row['caseIssueName'] || null
LinkLabel(row) == OrElse(Get(row, "caseIssueName"), Null)

\* (variant) the row numbered by its 0-based index
MapRowFromZero(row, index) ==
    LET newRow0 == [k \in {"id"} |-> Num(index)]
        newRow1 == Put(newRow0, "Case_Issue_Link_URL",
                       LinkUrl(OrElse(Get(row, "caseIssueId"), Null)))
        newRow2 == Put(newRow1, "Case_Issue_Label", LinkLabel(row))
    IN  CopyMapped(newRow2, row, 1)

\* the callback of parsedData.map, for an element a property can be read of
MapRow(row, index) ==
    LET caseIssueId   == OrElse(Get(row, "caseIssueId"), Null)
        caseIssueName == LinkLabel(row)
        newRow0 == [k \in {"id"} |-> Num(index + 1)]
        newRow1 == Put(newRow0, "Case_Issue_Link_URL", LinkUrl(caseIssueId))
        newRow2 == Put(newRow1, "Case_Issue_Label", caseIssueName)
    IN  CopyMapped(newRow2, row, 1)

\* {...a, ...b}
Merge(a, b) ==
    [k \in DOMAIN a \cup DOMAIN b |-> IF k \in DOMAIN b THEN b[k] ELSE a[k]]

\* the callback of the column map
ColumnDef(colDef) ==
    LET isLink == colDef.jsonKey = "caseIssueName"
        linkAttrs == [k \in {"label.fieldName", "target", "tooltip"} |->
                        CASE k = "label.fieldName" -> colDef.labelFieldName
                          [] k = "target"          -> "_blank"
                          [] OTHER                 -> "Open Case Issue Record"]
        attrs0 == IF isLink THEN linkAttrs ELSE NoAttrs
    IN  [label |-> colDef.label,
         fieldName |-> IF isLink THEN colDef.urlFieldName ELSE colDef.jsonKey,
         type |-> colDef.type,
         sortable |-> TRUE,
         typeAttributes |-> IF colDef.typeAttributes # NoAttrs
                            THEN Merge(attrs0, colDef.typeAttributes)
                            ELSE attrs0]

\* (variant) every mapping entry becomes a column, hidden ones too
ColumnsUnfiltered ==
    [i \in 1..Len(columnMapping) |-> ColumnDef(columnMapping[i])]

\* columnMapping.filter(col => col.type !== 'hidden').map(...)
Columns ==
    LET visible == SelectSeq(columnMapping, LAMBDA col : col.type # "hidden")
    IN  [i \in 1..Len(visible) |-> ColumnDef(visible[i])]

\* (variant) a single decode pass
SinglePass(p1) == p1

\* the second decode pass: if (typeof parsedData === 'string') parse again
SecondPass(p1) ==
    IF p1.val.t = "str" THEN JSONparse(p1.val.v) ELSE p1

\* the body of the try block.  threw tells that an exception left it, msg
\* is e.message and self holds the assignments made before the throw.
TryBody(self, jsonString) ==
    Only({
      IF ~p1.ok
      THEN [threw |-> TRUE, failed |-> FALSE, msg |-> <<p1.msg>>, self |-> self]
      ELSE Only({
        IF ~p2.ok
        THEN [threw |-> TRUE, failed |-> FALSE, msg |-> <<p2.msg>>, self |-> self]
        ELSE
          LET parsedData == p2.val IN
          IF parsedData.t # "arr"
          THEN [threw |-> TRUE, failed |-> FALSE, msg |-> NotArrayMessage,
                self |-> self]
          ELSE
            LET recordCount == Len(parsedData.v)
                titled == [self EXCEPT !.dynamicTitle = TitleOf(recordCount)]
            IN
            IF \E i \in 1..recordCount : ~CanRead(parsedData.v[i])
            THEN [threw |-> TRUE, failed |-> FALSE, msg |-> TypeErrorMessage,
                  self |-> titled]
            ELSE [threw |-> FALSE, failed |-> FALSE, msg |-> <<>>,
                  self |-> [titled EXCEPT
                     !.autoColumns = Arr(Columns),
                     !.autoTableData =
                         Arr([i \in 1..recordCount |->
                                MapRow(parsedData.v[i], i - 1)])]]
        : p2 \in {SecondPass(p1)} })
      : p1 \in {JSONparse(jsonString.v)} })

\* (variant) the catch block leaving the columns in place
CatchBlockKeepsColumns(r) ==
    [threw |-> FALSE, failed |-> TRUE, msg |-> r.msg,
     self |-> [r.self EXCEPT !.autoError = Str(r.msg),
                             !.autoTableData = Null,
                             !.dynamicTitle = ZeroTitle]]

\* the catch block
CatchBlock(r) ==
    [threw |-> FALSE, failed |-> TRUE, msg |-> r.msg,
     self |-> [r.self EXCEPT !.autoError = Str(r.msg),
                             !.autoTableData = Null,
                             !.autoColumns = Null,
                             !.dynamicTitle = ZeroTitle]]

\* convertJsonToTable(jsonString): failed tells that the catch block ran,
\* threw that an exception left the method
convertJsonToTable(self, jsonString) ==
    Only({ IF r.threw THEN CatchBlock(r) ELSE r
           : r \in {TryBody(self, jsonString)} })

\* processAutoJson()
processAutoJson(self) ==
    IF Truthy(self.autoJsonData)
    THEN convertJsonToTable(self, self.autoJsonData)
    ELSE [threw |-> FALSE, msg |-> <<>>, self |-> self, failed |-> FALSE]

\* the message of a fetch error.  An error object is flattened: its member
\* "body.message" is error.body.message, absent when error.body is.
FetchMessage(error) ==
    IF Truthy(Get(error, "body.message"))
    THEN Get(error, "body.message")
    ELSE OrElse(Get(error, "message"), Str(FetchFallback))

\* wiredPayeeRecord({ error, data })
wiredPayeeRecord(self, ev) ==
    IF ~Truthy(self.recordId)
    THEN [threw |-> FALSE, msg |-> <<>>, failed |-> FALSE,
          self |-> [self EXCEPT !.autoError = Str(WaitingMessage),
                                !.isLoading = TRUE]]
    ELSE IF Truthy(ev.data)
    THEN Only({ IF r.threw THEN r
                ELSE [r EXCEPT !.self = [r.self EXCEPT !.isLoading = FALSE]]
                : r \in {processAutoJson(
                            [self EXCEPT !.autoError = Null,
                                         !.autoJsonData = Get(ev.data, "value")])} })
    ELSE IF Truthy(ev.error)
    THEN [threw |-> FALSE, msg |-> <<>>, failed |-> TRUE,
          self |-> [self EXCEPT !.autoError = FetchMessage(ev.error),
                                !.autoJsonData = Null,
                                !.dynamicTitle = ZeroTitle,
                                !.isLoading = FALSE]]
    ELSE [threw |-> FALSE, msg |-> <<>>, failed |-> FALSE, self |-> self]

\* ------------------------------------------------------------ inputs
MaxRows == 2

Key(k) == <<k>>

\* the elements a stored document is made of: flat objects, and values
\* that are not objects
Elements ==
    << Obj(<< <<Key("caseIssueId"), Str(<<"a1B">>)>>,
              <<Key("caseIssueName"), Str(<<"Wage Claim">>)>>,
              <<Key("citationForm"), Str(<<"12-CV">>)>>,
              <<Key("factor"), Num(5)>>,
              <<Key("remarks"), Str(<<"say ", "\"", "hi", "\"">>)>> >>),
       Obj(<< <<Key("caseIssueId"), Str(<<>>)>>,
              <<Key("caseIssueName"), Str(<<>>)>> >>),
       Obj(<< <<Key("caseIssueId"), Num(0)>>,
              <<Key("caseIssueName"), Num(0)>>,
              <<Key("factor"), Num(0)>> >>),
       Obj(<< <<Key("caseIssueId"), Null>>,
              <<Key("caseIssueName"), Bool(FALSE)>> >>),
       Obj(<<>>),
       Obj(<< <<Key("caseIssueId"), Num(7)>>,
              <<Key("caseIssueName"), Str(<<"Overtime">>)>>,
              <<Key("citationForm"), Str(<<"a\\b">>)>> >>),
       Num(5),
       Null >>

\* the array of n elements starting at element s, cyclically
Window(s, n) ==
    Arr([i \in 1..n |-> Elements[((s + i - 2) % Len(Elements)) + 1]])

Arrays == {Window(s, n) : s \in 1..Len(Elements), n \in 0..MaxRows}

\* field values that do not encode an array once or twice
OtherTexts ==
    { <<"{", "not", "json">>,
      <<"[", "{">>,
      <<"[", "5", "]", "]">>,
      JSONstringify(Elements[1]),
      JSONstringify(Str(JSONstringify(Elements[1]))),
      <<"5">>, <<"null">>, <<"true">>,
      Quote(<<"abc">>),
      Quote(<<>>),
      JSONstringify(Str(JSONstringify(Str(JSONstringify(Window(1, 1)))))) }

\* what the record's JSON field holds: src is the array it encodes, enc
\* the number of times that array was encoded (0: the text encodes none)
FieldValues ==
    {[value |-> Str(JSONstringify(a)), src |-> a, enc |-> 1] : a \in Arrays}
    \cup {[value |-> Str(JSONstringify(Str(JSONstringify(a)))), src |-> a, enc |-> 2]
            : a \in Arrays}
    \cup {[value |-> Str(t), src |-> Arr(<<>>), enc |-> 0] : t \in OtherTexts}
    \cup {[value |-> Str(<<>>), src |-> Arr(<<>>), enc |-> 0],
          [value |-> Null, src |-> Arr(<<>>), enc |-> 0]}

DataOf(value) == Obj(<< <<Key("value"), value>> >>)

\* the errors the record fetch reports
FetchErrors ==
    { Obj(<< <<Key("body.message"), Str(<<"The requested resource does not exist">>)>>,
             <<Key("message"), Str(<<"Request failed">>)>> >>),
      Obj(<< <<Key("body.message"), Str(<<>>)>>,
             <<Key("message"), Str(<<"Network error">>)>> >>),
      Obj(<< <<Key("body.message"), Str(WaitingMessage)>> >>),
      Obj(<<>>) }

SomeRecordId == Str(<<"a0Bxx0000001">>)
RecordIds == {Undefined, SomeRecordId}

\* ------------------------------------------------------------- the state
VARIABLES recordId, autoTableData, autoColumns, autoJsonData, autoError,
          isLoading, dynamicTitle,
          escaped,   \* an exception left a handler
          last       \* the last wire event delivered, and what became of it

vars == <<recordId, autoTableData, autoColumns, autoJsonData, autoError,
          isLoading, dynamicTitle, escaped, last>>

this ==
    [recordId |-> recordId, autoTableData |-> autoTableData,
     autoColumns |-> autoColumns, autoJsonData |-> autoJsonData,
     autoError |-> autoError, isLoading |-> isLoading,
     dynamicTitle |-> dynamicTitle]

NoField == [value |-> Undefined, src |-> Arr(<<>>), enc |-> 0]

\* the fields of a component just constructed
Constructed ==
    [recordId |-> Undefined, autoTableData |-> Undefined,
     autoColumns |-> Undefined, autoJsonData |-> Undefined,
     autoError |-> Undefined, isLoading |-> TRUE,
     dynamicTitle |-> InitialTitle]

Init ==
    /\ recordId = Constructed.recordId
    /\ autoTableData = Constructed.autoTableData
    /\ autoColumns = Constructed.autoColumns
    /\ autoJsonData = Constructed.autoJsonData
    /\ autoError = Constructed.autoError
    /\ isLoading = Constructed.isLoading
    /\ dynamicTitle = Constructed.dynamicTitle
    /\ escaped = FALSE
    /\ last = [kind |-> "none", hadId |-> FALSE, failed |-> FALSE,
               msg |-> <<>>, field |-> NoField]

Assign(self) ==
    /\ recordId' = self.recordId
    /\ autoTableData' = self.autoTableData
    /\ autoColumns' = self.autoColumns
    /\ autoJsonData' = self.autoJsonData
    /\ autoError' = self.autoError
    /\ isLoading' = self.isLoading
    /\ dynamicTitle' = self.dynamicTitle

\* the owner of the component sets the public property recordId
SetRecordId ==
    \E id \in RecordIds :
        /\ id # recordId
        /\ recordId' = id
        /\ UNCHANGED <<autoTableData, autoColumns, autoJsonData, autoError,
                       isLoading, dynamicTitle, escaped, last>>

\* what the last handler run did, kept for the properties below
Record(r, kind, field) ==
    /\ escaped' = (escaped \/ r.threw)
    /\ last' = [kind |-> IF Truthy(recordId) THEN kind ELSE "waiting",
                hadId |-> Truthy(recordId),
                failed |-> r.failed,
                msg |-> r.msg,
                field |-> IF Truthy(recordId) THEN field ELSE NoField]

\* the wire adapter provisions the record
WireData ==
    \E f \in FieldValues :
        \E r \in {wiredPayeeRecord(this, [data |-> DataOf(f.value),
                                          error |-> Undefined])} :
            /\ Assign(r.self)
            /\ Record(r, "data", f)

\* the wire adapter provisions an error
WireError ==
    \E e \in FetchErrors :
        \E r \in {wiredPayeeRecord(this, [data |-> Undefined, error |-> e])} :
            /\ Assign(r.self)
            /\ Record(r, "error", NoField)

\* the wire adapter provisions neither: { data: undefined, error: undefined }
WireEmpty ==
    \E r \in {wiredPayeeRecord(this, [data |-> Undefined, error |-> Undefined])} :
        /\ Assign(r.self)
        /\ Record(r, "empty", NoField)

Next == SetRecordId \/ WireData \/ WireError \/ WireEmpty

Spec == Init /\ [][Next]_vars

\* ------------------------------------------------------------ claims
Rows == autoTableData.v
SourceOf(i) == last.field.src.v[i]
AllObjects(a) == \A i \in 1..Len(a.v) : a.v[i].t = "obj"

\* the last wire event handed convertJsonToTable an array, encoded once or twice
GotArray == last.kind = "data" /\ last.field.enc \in {1, 2}

\* the last wire event ran a projection that completed
Projected == GotArray /\ ~last.failed

\* C1: a field value decoding to an array of N flat objects leaves exactly N
\* rows, the row of the element at 0-based index i carrying id i + 1 and that
\* element's mapped values, and the title 'Payee Association (N)'.
C1_RowCountIdsTitle ==
    (GotArray /\ AllObjects(last.field.src)) =>
        LET N == Len(last.field.src.v) IN
        /\ autoTableData.t = "arr"
        /\ Len(Rows) = N
        /\ \A i \in 1..N :
              /\ Rows[i].id = Num((i - 1) + 1)
              /\ \A c \in 1..Len(columnMapping) :
                    Rows[i][columnMapping[c].jsonKey]
                        = Get(SourceOf(i), columnMapping[c].jsonKey)
        /\ dynamicTitle = Str(<<"Payee Association (", ToString(N), ")">>)

C1_Witness ==
    /\ GotArray /\ AllObjects(last.field.src)
    /\ Len(last.field.src.v) >= 2
    /\ autoTableData.t = "arr" /\ Len(Rows) >= 2

\* C2: a field value holding the JSON encoding of the JSON encoding of an
\* array gives the title, columns and rows that the JSON encoding of the
\* array itself gives.
C2_DoubleDecoding ==
    (last.kind = "data" /\ last.field.enc = 2) =>
        LET direct == convertJsonToTable(this, Str(JSONstringify(last.field.src))).self
        IN  /\ dynamicTitle = direct.dynamicTitle
            /\ autoColumns = direct.autoColumns
            /\ autoTableData = direct.autoTableData

C2_Witness ==
    /\ last.kind = "data" /\ last.field.enc = 2
    /\ AllObjects(last.field.src) /\ Len(last.field.src.v) >= 2
    /\ autoTableData.t = "arr" /\ Len(Rows) = Len(last.field.src.v)

\* C3: no exception leaves convertJsonToTable; a failure in it leaves
\* autoError set to the message thrown (the decoder's for a syntax error,
\* the fixed text for a value that is not an array), the title
\* 'Payee Association (0)' and autoTableData and autoColumns null.
C3_FailureCaught ==
    /\ ~escaped
    /\ (last.kind = "data" /\ last.failed) =>
          /\ autoError = Str(last.msg)
          /\ last.msg # <<>>
          /\ dynamicTitle = Str(<<"Payee Association (", "0", ")">>)
          /\ autoTableData = Null
          /\ autoColumns = Null
          /\ (last.field.value = Str(<<"{", "not", "json">>)
                => autoError.v \in {<<SyntaxErrorToken>>, <<SyntaxErrorEnd>>})
          /\ (last.field.value = Str(JSONstringify(Elements[1]))
                => autoError = Str(NotArrayMessage))

C3_Witness ==
    /\ last.kind = "data" /\ last.failed
    /\ last.field.value = Str(JSONstringify(Elements[1]))
    /\ autoError = Str(NotArrayMessage)
    /\ autoTableData = Null

\* C4 (as claimed): whenever the last wire event came with a record id and
\* was a failure, a fetch error or a projection error, autoError is a
\* non-empty message, the title is 'Payee Association (0)' and neither
\* autoTableData nor autoColumns holds a row or a column.
C4_EveryFailureClears ==
    (last.hadId /\ last.failed) =>
        /\ autoError.t = "str" /\ autoError.v # <<>>
        /\ dynamicTitle = ZeroTitle
        /\ autoTableData.t = "arr" => autoTableData.v = <<>>
        /\ autoColumns.t = "arr" => autoColumns.v = <<>>

\* what the renderer is given
Outputs(self) ==
    <<self.dynamicTitle, self.autoColumns, self.autoTableData, self.autoError>>

\* C5 (as claimed): after a data event the title, columns, rows and error
\* are those the same event gives a component that has seen no event before,
\* so they depend on the event's field value alone.
C5_DataEventReplacesAll ==
    last.kind = "data" =>
        Outputs(this) =
            Outputs(wiredPayeeRecord(
                        [Constructed EXCEPT !.recordId = SomeRecordId],
                        [data |-> DataOf(last.field.value), error |-> Undefined]).self)

\* C6 (as claimed): a field value decoding to an array with an element that
\* is not an object is rejected with the 'expected an array of objects'
\* message and projected into no rows.
C6_NonObjectElementsRejected ==
    (GotArray /\ ~AllObjects(last.field.src)) =>
        /\ autoError = Str(NotArrayMessage)
        /\ autoTableData.t # "arr"

\* C7 (as claimed): shouldShowFinalError is falsy while the component waits
\* for a record id or has no error, and truthy when the last wire event came
\* with a record id and was a fetch error or a projection failure.
C7_WaitingNeverFailureEveryFailureShown ==
    /\ (last.kind = "waiting" \/ ~Truthy(autoError))
          => ~Truthy(shouldShowFinalError(this))
    /\ (last.hadId /\ last.failed) => Truthy(shouldShowFinalError(this))

\* C8: in every projected row Case_Issue_Link_URL is null when the source
\* element's caseIssueId is falsy and '/' followed by caseIssueId otherwise;
\* the copy of the mapping entries leaves it so.
C8_LinkUrl ==
    Projected =>
        \A i \in 1..Len(Rows) :
            LET id == Get(SourceOf(i), "caseIssueId") IN
            /\ ~Truthy(id) => Rows[i].Case_Issue_Link_URL = Null
            /\ (Truthy(id) /\ id.t = "str")
                  => Rows[i].Case_Issue_Link_URL = Str(<<"/">> \o id.v)
            /\ (Truthy(id) /\ id.t = "num")
                  => Rows[i].Case_Issue_Link_URL = Str(<<"/", ToString(id.v)>>)
            /\ id = Str(<<"a1B">>)
                  => Rows[i].Case_Issue_Link_URL = Str(<<"/", "a1B">>)

C8_Witness ==
    /\ Projected /\ autoTableData.t = "arr"
    /\ \E i \in 1..Len(Rows) :
          /\ Get(SourceOf(i), "caseIssueId") = Str(<<"a1B">>)
          /\ Rows[i].Case_Issue_Link_URL = Str(<<"/", "a1B">>)
    /\ \E i \in 1..Len(Rows) :
          /\ Get(SourceOf(i), "caseIssueId") = Str(<<>>)
          /\ Rows[i].Case_Issue_Link_URL = Null

\* C9: after a projection the columns are the mapping entries whose type is
\* not 'hidden', one each and in mapping order; caseIssueId is no column;
\* every row carries caseIssueId with the source element's value.
C9_HiddenNotAColumnButInRows ==
    Projected =>
        LET shown == SelectSeq(columnMapping, LAMBDA col : col.type # "hidden") IN
        /\ autoColumns.t = "arr"
        /\ Len(autoColumns.v) = Len(shown)
        /\ \A n \in 1..Len(shown) :
              /\ autoColumns.v[n].label = shown[n].label
              /\ autoColumns.v[n].type = shown[n].type
        /\ \A n \in 1..Len(autoColumns.v) :
              /\ autoColumns.v[n].type # "hidden"
              /\ autoColumns.v[n].fieldName # "caseIssueId"
        /\ \A i \in 1..Len(Rows) :
              /\ "caseIssueId" \in DOMAIN Rows[i]
              /\ Rows[i].caseIssueId = Get(SourceOf(i), "caseIssueId")

C9_Witness ==
    /\ Projected /\ autoColumns.t = "arr" /\ autoTableData.t = "arr"
    /\ Len(autoColumns.v) < Len(columnMapping)
    /\ \E i \in 1..Len(Rows) : Rows[i].caseIssueId = Str(<<"a1B">>)

\* C10 (as claimed): in every projected row Case_Issue_Label is the source
\* element's caseIssueName as it stands, whatever value it holds.
C10_LabelVerbatim ==
    Projected =>
        \A i \in 1..Len(Rows) :
            Get(SourceOf(i), "caseIssueName") # Undefined
                => Rows[i].Case_Issue_Label = Get(SourceOf(i), "caseIssueName")

\* C10 (amended): in every projected row Case_Issue_Label is the source
\* element's caseIssueName when that value is truthy, and null when it is
\* falsy (absent, null, false, 0 or the empty string).
C10_LabelOrNull ==
    Projected =>
        \A i \in 1..Len(Rows) :
            LET name == Get(SourceOf(i), "caseIssueName") IN
            /\ Truthy(name) => Rows[i].Case_Issue_Label = name
            /\ ~Truthy(name) => Rows[i].Case_Issue_Label = Null

C10_Witness ==
    /\ Projected /\ autoTableData.t = "arr"
    /\ \E i \in 1..Len(Rows) :
          /\ Get(SourceOf(i), "caseIssueName") = Str(<<>>)
          /\ Rows[i].Case_Issue_Label = Null
    /\ \E i \in 1..Len(Rows) :
          /\ Get(SourceOf(i), "caseIssueName") = Str(<<"Wage Claim">>)
          /\ Rows[i].Case_Issue_Label = Str(<<"Wage Claim">>)

====
